---- MODULE Spec2Model ----
(***************************************************************************)
(* Model of tzrec/models/fusion_dssm_v2.py: construction of FusionDSSMV2,  *)
(* FusionDSSMV2.predict, DSSMTower.forward and _perm_feat.                 *)
(*                                                                         *)
(* Tensors are modelled by their row structure.  A user feature row is a   *)
(* function from feature position (1..NumFeats, the blocks torch.split     *)
(* cuts by feat_dims) to the batch row the block was read from; an         *)
(* embedding row records the module that produced it and the feature row   *)
(* it encodes; a similarity entry records the pair of embedding rows whose *)
(* dot product it is.  Rows and feature positions are numbered from 1      *)
(* (row r here is row r-1 of the code); channel values and the loop index  *)
(* i keep the code's numbering from 0.                                     *)
(***************************************************************************)
EXTENDS Integers, Sequences, FiniteSets, TLC

MaxTowers == 2   \* longest model_config.user_tower
MaxBatch == 2    \* largest batch_size (length of labels["channel"])
MaxNeg == 1      \* most sampled-negative item rows after the batch rows
MaxFolds == 2    \* largest nflods of a permutation config
NumFeats == 2    \* features (column blocks) of a user feature group

\* feature group names a tower config can name as its input
GroupNames == {"u", "v"}

VARIABLES
    user_tower,            \* model_config.user_tower: the inputs of the tower configs
    user_tower_perm_feat,  \* model_config.user_tower_perm_feat
    training,              \* self.training
    channel,               \* batch.labels["channel"]
    num_neg,               \* item feature rows beyond batch_size
    pc,                    \* position in __init__ / predict
    i,                     \* loop index of the for loops over user_tower
    perm_feat_dict,        \* self._user_tower_perm_feat
    towers,                \* attributes "<input>_tower" set on self
    item_tower,            \* self.item_tower
    grouped,               \* grouped_features[<user group>]: the user feature rows
    item_tower_emb,
    tower_index,
    user_emb,
    pos_item_emb,
    neg_item_emb,
    ui_sim,
    perm_user_emb,         \* user_emb returned by the permute=True forward
    prediction_dict,
    draws,                 \* number of torch.randperm calls so far
    calls                  \* the user-tower forward calls made so far

vars == <<user_tower, user_tower_perm_feat, training, channel, num_neg, pc, i,
          perm_feat_dict, towers, item_tower, grouped, item_tower_emb, tower_index,
          user_emb, pos_item_emb, neg_item_emb, ui_sim, perm_user_emb,
          prediction_dict, draws, calls>>

cfg_vars == <<user_tower, user_tower_perm_feat, training>>

batch_vars == <<channel, num_neg, grouped>>

----------------------------------------------------------------------------
(* Tensor primitives *)

Range(s) == {s[k] : k \in DOMAIN s}

RECURSIVE SeqsUpTo(_, _)
SeqsUpTo(S, n) ==
    IF n = 0 THEN {<<>>}
    ELSE LET shorter == SeqsUpTo(S, n - 1)
         IN shorter \cup {Append(s, x) : s \in {t \in shorter : Len(t) = n - 1}, x \in S}

\* a comparison slip in the channel test: rows of lower channels are kept too
where_upto(labels, v) ==
    SelectSeq([r \in 1..Len(labels) |-> r], LAMBDA r : labels[r] <= v)

\* torch.where(labels == i)[0]: the matching row indices, ascending
where(labels, v) ==
    SelectSeq([r \in 1..Len(labels) |-> r], LAMBDA r : labels[r] = v)

\* torch.index_select(t, 0, index)
index_select(t, index) == [k \in 1..Len(index) |-> t[index[k]]]

\* the values torch.randperm(n) can return
randperm(n) == {p \in [1..n -> 1..n] : \A a, b \in 1..n : p[a] = p[b] => a = b}

\* torch.cat of a list of row blocks along dim 0
RECURSIVE cat(_)
cat(blocks) ==
    IF blocks = <<>> THEN <<>> ELSE Head(blocks) \o cat(Tail(blocks))

\* the fold loop without the "idx in perm_feats_index" test: every block is
\* permuted
perm_fold_all(feature, perm_feats_index, perm) ==
    [r \in 1..Len(feature) |-> [k \in 1..NumFeats |-> feature[perm[r]][k]]]

\* one iteration of the fold loop of _perm_feat: f[perm] for the selected
\* feature blocks, f for the others, concatenated along the last dim
perm_fold(feature, perm_feats_index, perm) ==
    [r \in 1..Len(feature) |->
        [k \in 1..NumFeats |->
            IF k \in perm_feats_index THEN feature[perm[r]][k]
            ELSE feature[r][k]]]

\* _perm_feat with the permutations randperm returned, one per fold
perm_feat(feature, perm_feats_index, perms) ==
    cat([f \in 1..Len(perms) |-> perm_fold(feature, perm_feats_index, perms[f])])

\* senet / mlp / output / normalize: a row-wise encoder, kept symbolic
encode(module, feature) ==
    [r \in 1..Len(feature) |-> [module |-> module, row |-> feature[r]]]

\* forward without the index_select of lines 113-114
select_rows_all(feature, index) == feature

\* DSSMTower.forward up to the encoder: the rows restricted to tower_index
select_rows(feature, index) == index_select(feature, index)

\* does DSSMTower.forward call _perm_feat
forward_permutes(tower, permute) == permute /\ tower.perm_feats_index # {}

\* DSSMTower.forward given the permutations _perm_feat draws; torch.cat of the
\* empty fold list (perm_nflods = 0) raises.  index_select, f[perm] and cat
\* build new tensors: the caller's tensor is left as it was (field feature)
forward(module, tower, feature, index, permute, perms) ==
    LET selected == select_rows(feature, index)
    IN IF forward_permutes(tower, permute)
       THEN IF tower.perm_nflods = 0
            THEN [ok |-> FALSE, emb |-> <<>>, feature |-> feature]
            ELSE [ok |-> TRUE, feature |-> feature,
                  emb |-> encode(module, perm_feat(selected, tower.perm_feats_index, perms))]
       ELSE [ok |-> TRUE, emb |-> encode(module, selected), feature |-> feature]

\* the permutations the permute=True forward draws: one per fold, over the
\* rows left after the channel selection
perm_draws(tower, feature, index, permute) ==
    LET n == Len(select_rows(feature, index))
        folds == IF forward_permutes(tower, permute) THEN tower.perm_nflods ELSE 0
    IN [1..folds -> randperm(n)]

\* self.embedding_group(batch)[group]: user feature rows of the batch
grouped_features(batch_size) ==
    [r \in 1..batch_size |-> [k \in 1..NumFeats |-> r]]

\* attribute name f"{tower_cfg.input}_tower"
tower_attr(input) == input \o "_tower"

\* prediction key f"similarity_{tower_cfg.input}"
sim_key(input) == "similarity_" \o input

\* {x.tower_name: x for x in user_tower_perm_feat}: a later entry replaces an
\* earlier one of the same tower_name
perm_feat_by_name(cfgs) ==
    LET names == {cfgs[k].tower_name : k \in DOMAIN cfgs}
        last(nm) == CHOOSE k \in DOMAIN cfgs :
                        /\ cfgs[k].tower_name = nm
                        /\ \A j \in DOMAIN cfgs : cfgs[j].tower_name = nm => j <= k
    IN [nm \in names |-> cfgs[last(nm)]]

\* the DSSMTower built for tower config i (0-based): its permutation settings
new_user_tower(input, dict, idx) ==
    IF input \in DOMAIN dict
    THEN [id |-> idx, perm_feats_index |-> dict[input].features,
          perm_nflods |-> dict[input].nflods]
    ELSE [id |-> idx, perm_feats_index |-> {}, perm_nflods |-> 0]

\* the negatives taken from the whole item tower output
neg_items_all(emb, batch_size) == emb

\* item_tower_emb[batch_size:]
neg_items(emb, batch_size) == SubSeq(emb, batch_size + 1, Len(emb))

\* self.sim(user_emb, item_emb), defined by the base class: kept as the pair of
\* its arguments, with no permutation columns appended yet
sim(users, items) ==
    [user |-> users, item |-> items, extra_cols |-> 0,
     extra |-> [r \in 1..Len(users) |-> <<>>]]

\* the branch condition without "and self.training"
perm_branch_any_mode(input, dict, train) == input \in DOMAIN dict

\* the condition of the permutation branch of predict
perm_branch(input, dict, train) == input \in DOMAIN dict /\ train

\* user_emb.reshape((nflods, -1, user_emb.size(1))): fails unless nflods > 0
\* divides the number of rows
reshape_ok(emb, nflods) == nflods > 0 /\ Len(emb) % nflods = 0

reshape(emb, nflods) ==
    LET m == Len(emb) \div nflods
    IN [b \in 1..nflods |-> [r \in 1..m |-> emb[(b - 1) * m + r]]]

\* torch.einsum("bij,ij->ib", u3, pos): the i sizes must match or be 1
einsum_ok(u3, pos) ==
    LET m == Len(u3[1]) n == Len(pos)
    IN m = n \/ m = 1 \/ n = 1

einsum(u3, pos) ==
    LET m == Len(u3[1]) n == Len(pos)
        rows == IF m = 1 THEN n ELSE m
    IN [r \in 1..rows |->
          [b \in 1..Len(u3) |->
              [user |-> u3[b][IF m = 1 THEN 1 ELSE r],
               item |-> pos[IF n = 1 THEN 1 ELSE r]]]]

\* torch.cat([ui_sim, neg_ui_sim], dim=-1)
cat_cols(base, block, ncols) ==
    [base EXCEPT !.extra_cols = ncols,
                 !.extra = [r \in 1..Len(base.user) |-> block[r]]]

----------------------------------------------------------------------------
(* Configurations and batches *)

PermFeatCfgs ==
    [tower_name : GroupNames, features : SUBSET (1..NumFeats), nflods : 0..MaxFolds]

\* the permutation config lists: empty, or one entry for some tower name
PermFeatLists == {<<>>} \cup {<<c>> : c \in PermFeatCfgs}

\* the batches predict can be given: a channel label per batch row, in range
\* or one past the last tower, and no sampled-negative item rows or MaxNeg
Batches ==
    [channel : SeqsUpTo(0..Len(user_tower), MaxBatch), num_neg : {0, MaxNeg}]

Init ==
    /\ user_tower \in SeqsUpTo(GroupNames, MaxTowers) \ {<<>>}
    /\ user_tower_perm_feat \in PermFeatLists
    /\ training \in BOOLEAN
    /\ channel = <<>>
    /\ num_neg = 0
    /\ pc = "init"
    /\ i = 0
    /\ perm_feat_dict = <<>>
    /\ towers = <<>>
    /\ item_tower = FALSE
    /\ grouped = <<>>
    /\ item_tower_emb = <<>>
    /\ tower_index = <<>>
    /\ user_emb = <<>>
    /\ pos_item_emb = <<>>
    /\ neg_item_emb = <<>>
    /\ ui_sim = sim(<<>>, <<>>)
    /\ perm_user_emb = <<>>
    /\ prediction_dict = <<>>
    /\ draws = 0
    /\ calls = <<>>

predict_locals == <<channel, num_neg, grouped, item_tower_emb, tower_index, user_emb, pos_item_emb,
                    neg_item_emb, ui_sim, perm_user_emb, prediction_dict, draws, calls>>

----------------------------------------------------------------------------
(* FusionDSSMV2.__init__ *)

\* lines 171-173
InitPermFeat ==
    /\ pc = "init"
    /\ perm_feat_dict' = perm_feat_by_name(user_tower_perm_feat)
    /\ pc' = "init_user"
    /\ i' = 0
    /\ UNCHANGED <<cfg_vars, towers, item_tower, predict_locals>>

\* one iteration of the loop of lines 176-197: setattr replaces an attribute
\* of the same name
InitUserTower ==
    /\ pc = "init_user"
    /\ i < Len(user_tower)
    /\ LET input == user_tower[i + 1]
           attr == tower_attr(input)
           t == new_user_tower(input, perm_feat_dict, i)
       IN towers' = [a \in DOMAIN towers \cup {attr} |->
                        IF a = attr THEN t ELSE towers[a]]
    /\ i' = i + 1
    /\ UNCHANGED <<cfg_vars, pc, perm_feat_dict, item_tower, predict_locals>>

\* lines 198-206
InitItemTower ==
    /\ pc = "init_user"
    /\ i = Len(user_tower)
    /\ item_tower' = TRUE
    /\ pc' = "ready"
    /\ UNCHANGED <<cfg_vars, i, perm_feat_dict, towers, predict_locals>>

----------------------------------------------------------------------------
(* FusionDSSMV2.predict *)

batch_size == Len(channel)

\* predict is called with a batch; lines 217-222: the item tower encodes every
\* item row, batch rows first
PredictItemTower ==
    /\ pc = "ready"
    /\ \E batch \in Batches :
          /\ channel' = batch.channel
          /\ num_neg' = batch.num_neg
          /\ grouped' = grouped_features(Len(batch.channel))
          /\ item_tower_emb' = encode("item_tower",
                 [r \in 1..(Len(batch.channel) + batch.num_neg) |-> r])
    /\ prediction_dict' = <<>>
    /\ i' = 0
    /\ pc' = "loop"
    /\ UNCHANGED <<cfg_vars, perm_feat_dict, towers, item_tower, tower_index,
                   user_emb, pos_item_emb, neg_item_emb, ui_sim, perm_user_emb,
                   draws, calls>>

\* prediction_dict[key] = ui_sim / temperature, then the next iteration or
\* the return of line 252
store(dict, key, value) ==
    [k \in DOMAIN dict \cup {key} |-> IF k = key THEN value ELSE dict[k]]

next_pc(idx) == IF idx + 1 = Len(user_tower) THEN "done" ELSE "loop"

\* lines 223-235, and lines 249-251 when the permutation branch is not taken
PredictUserTower ==
    /\ pc = "loop"
    /\ LET input == user_tower[i + 1]
           attr == tower_attr(input)
           index == where(channel, i)
           out == forward(towers[attr].id, towers[attr], grouped, index, FALSE, <<>>)
           pos == index_select(item_tower_emb, index)
           neg == neg_items(item_tower_emb, batch_size)
           s == sim(out.emb, cat(<<pos, neg>>))
       IN /\ tower_index' = index
          /\ user_emb' = out.emb
          /\ pos_item_emb' = pos
          /\ neg_item_emb' = neg
          /\ ui_sim' = s
          /\ calls' = Append(calls, [i |-> i, attr |-> attr, index |-> index,
                                     permute |-> FALSE])
          /\ IF perm_branch(input, perm_feat_dict, training)
             THEN /\ pc' = "perm"
                  /\ UNCHANGED <<i, prediction_dict>>
             ELSE /\ prediction_dict' = store(prediction_dict, sim_key(input), s)
                  /\ pc' = next_pc(i)
                  /\ i' = i + 1
    /\ UNCHANGED <<cfg_vars, batch_vars, perm_feat_dict, towers, item_tower,
                   item_tower_emb, perm_user_emb, draws>>

\* lines 236-238: the permute=True forward pass
PredictPermForward ==
    /\ pc = "perm"
    /\ LET input == user_tower[i + 1]
           attr == tower_attr(input)
           t == towers[attr]
       IN \E perms \in perm_draws(t, grouped, tower_index, TRUE) :
             LET out == forward(t.id, t, grouped, tower_index, TRUE, perms)
             IN /\ draws' = draws + Len(perms)
                /\ grouped' = out.feature
                /\ calls' = Append(calls, [i |-> i, attr |-> attr,
                                           index |-> tower_index, permute |-> TRUE])
                /\ IF out.ok
                   THEN perm_user_emb' = out.emb /\ pc' = "score"
                   ELSE perm_user_emb' = <<>> /\ pc' = "error"
    /\ UNCHANGED <<cfg_vars, channel, num_neg, i, perm_feat_dict, towers, item_tower,
                   item_tower_emb, tower_index, user_emb, pos_item_emb,
                   neg_item_emb, ui_sim, prediction_dict>>

\* lines 239-251: reshape, einsum, cat and the dict entry
PredictPermScore ==
    /\ pc = "score"
    /\ LET input == user_tower[i + 1]
           nflods == perm_feat_dict[input].nflods
       IN IF ~reshape_ok(perm_user_emb, nflods)
          THEN pc' = "error" /\ UNCHANGED <<i, ui_sim, prediction_dict>>
          ELSE LET u3 == reshape(perm_user_emb, nflods)
               IN IF ~einsum_ok(u3, pos_item_emb)
                  THEN pc' = "error" /\ UNCHANGED <<i, ui_sim, prediction_dict>>
                  ELSE LET neg_ui_sim == einsum(u3, pos_item_emb)
                       IN IF Len(neg_ui_sim) # Len(ui_sim.user)
                          THEN pc' = "error" /\ UNCHANGED <<i, ui_sim, prediction_dict>>
                          ELSE LET s == cat_cols(ui_sim, neg_ui_sim, nflods)
                               IN /\ ui_sim' = s
                                  /\ prediction_dict' =
                                         store(prediction_dict, sim_key(input), s)
                                  /\ pc' = next_pc(i)
                                  /\ i' = i + 1
    /\ UNCHANGED <<cfg_vars, batch_vars, perm_feat_dict, towers, item_tower,
                   item_tower_emb, tower_index, user_emb, pos_item_emb,
                   neg_item_emb, perm_user_emb, draws, calls>>

Next ==
    \/ InitPermFeat
    \/ InitUserTower
    \/ InitItemTower
    \/ PredictItemTower
    \/ PredictUserTower
    \/ PredictPermForward
    \/ PredictPermScore

Spec == Init /\ [][Next]_vars

----------------------------------------------------------------------------
(* Properties *)

IsAscending(s) == \A a, b \in DOMAIN s : a < b => s[a] < s[b]

RowsOfChannel(v) == {r \in 1..Len(channel) : channel[r] = v}

\* the forward call made last, and the tower it went to
LastCall == calls[Len(calls)]

\* the inputs of the configured towers, read from the config list itself
Configured(input) ==
    \E k \in DOMAIN user_tower_perm_feat : user_tower_perm_feat[k].tower_name = input

ConfiguredFolds(input) ==
    LET k == CHOOSE j \in DOMAIN user_tower_perm_feat :
                 user_tower_perm_feat[j].tower_name = input
    IN user_tower_perm_feat[k].nflods

\* the tower of the current iteration and whether its permute=True forward
\* went through _perm_feat
CurTower == towers[tower_attr(user_tower[i + 1])]

Permuted == pc = "score" /\ CurTower.perm_feats_index # {}

\* C1: construction builds one user tower per entry of user_tower and predict
\* returns one entry per user-tower config, keyed similarity_<input>.
C1_OneTowerPerConfig ==
    /\ pc \in {"ready", "loop", "perm", "score", "done"}
           => Cardinality(DOMAIN towers) = Len(user_tower) /\ item_tower
    /\ pc = "done"
           => /\ \A k \in DOMAIN user_tower :
                     sim_key(user_tower[k]) \in DOMAIN prediction_dict
              /\ Cardinality(DOMAIN prediction_dict) = Len(user_tower)

\* C2: the rows fed to the i-th user tower are the batch rows whose channel is
\* i, ascending, paired with the item embeddings of the same rows; a row with a
\* channel in range is encoded by exactly one loop iteration, any other by none.
C2_ChannelRouting ==
    /\ \A c \in Range(calls) :
          /\ IsAscending(c.index)
          /\ Range(c.index) = RowsOfChannel(c.i)
          /\ c.attr = tower_attr(user_tower[c.i + 1])
    /\ Len(user_emb) = Len(tower_index)
    /\ Len(pos_item_emb) = Len(tower_index)
    /\ \A k \in DOMAIN tower_index :
          /\ \A f \in 1..NumFeats : user_emb[k].row[f] = tower_index[k]
          /\ pos_item_emb[k] = [module |-> "item_tower", row |-> tower_index[k]]
    /\ pc = "done" =>
          \A r \in DOMAIN channel :
             Cardinality({c.i : c \in {d \in Range(calls) : r \in Range(d.index)}})
               = IF channel[r] \in 0..(Len(user_tower) - 1) THEN 1 ELSE 0

C2_Witness ==
    /\ pc = "done"
    /\ Len(user_tower) = 2
    /\ channel = <<1, 0>>
    /\ \E c \in Range(calls) : c.i = 0 /\ c.index = <<2>>
    /\ \E c \in Range(calls) : c.i = 1 /\ c.index = <<1>>

\* C3: _perm_feat returns perm_nflods folds of n rows; in fold f a permutation
\* p_f of the rows gives row f*n + r the selected blocks of row p_f(r) and the
\* other blocks of row r; the input tensor is left unchanged.
C3_PermFeatLayout ==
    /\ Permuted =>
          LET n == Len(tower_index)
              sel == CurTower.perm_feats_index
          IN /\ Len(perm_user_emb) = CurTower.perm_nflods * n
             /\ \A f \in 1..CurTower.perm_nflods :
                   \E p \in randperm(n) :
                      \A r \in 1..n, k \in 1..NumFeats :
                         perm_user_emb[(f - 1) * n + r].row[k] =
                            IF k \in sel THEN tower_index[p[r]] ELSE tower_index[r]
    /\ pc \in {"loop", "perm", "score", "done", "error"} =>
          /\ Len(grouped) = Len(channel)
          /\ \A r \in DOMAIN grouped, k \in 1..NumFeats : grouped[r][k] = r

C3_Witness ==
    /\ Permuted
    /\ CurTower.perm_feats_index = {1}
    /\ CurTower.perm_nflods = 2
    /\ Len(tower_index) = 2
    /\ perm_user_emb[1].row = <<tower_index[2], tower_index[1]>>
    /\ perm_user_emb[3].row = <<tower_index[1], tower_index[1]>>

\* C4: with at least two rows, the selected blocks of every augmented row come
\* from another row: no augmented row equals the row it is scored against.
C4_NoFixedPoint ==
    (Permuted /\ Len(tower_index) >= 2) =>
        \A j \in DOMAIN perm_user_emb :
           LET r == ((j - 1) % Len(tower_index)) + 1
           IN /\ \A k \in CurTower.perm_feats_index :
                    perm_user_emb[j].row[k] # tower_index[r]
              /\ perm_user_emb[j] # user_emb[r]

\* C5: the items scored against the users of tower i are the items of the
\* batch rows of channel i, in row order, followed by every item row beyond
\* batch_size; no batch row of another channel is among them.
C5_Candidates ==
    calls # <<>> =>
        LET cand == ui_sim.item
            n == Cardinality(RowsOfChannel(LastCall.i))
        IN /\ Len(cand) = n + num_neg
           /\ \A k \in DOMAIN cand : cand[k].module = "item_tower"
           /\ IsAscending([k \in DOMAIN cand |-> cand[k].row])
           /\ \A k \in 1..n : channel[cand[k].row] = LastCall.i
           /\ \A k \in (n + 1)..Len(cand) : cand[k].row = batch_size + (k - n)
           /\ \A k \in DOMAIN cand :
                 cand[k].row <= batch_size => channel[cand[k].row] = LastCall.i

C5_Witness ==
    /\ calls # <<>>
    /\ num_neg >= 1
    /\ RowsOfChannel(LastCall.i) # {}
    /\ \E r \in DOMAIN channel : channel[r] # LastCall.i
    /\ Len(ui_sim.item) = 1 + num_neg

\* C6: a tower's output has nflods columns appended exactly when its input is
\* configured in user_tower_perm_feat and the model is training, and none
\* otherwise; in evaluation mode no random permutation is drawn.
C6_PermOnlyWhenTraining ==
    /\ \A input \in Range(user_tower) :
          sim_key(input) \in DOMAIN prediction_dict =>
             LET out == prediction_dict[sim_key(input)]
                 want == IF Configured(input) /\ training
                         THEN ConfiguredFolds(input) ELSE 0
             IN /\ out.extra_cols = want
                /\ \A r \in DOMAIN out.extra : Len(out.extra[r]) = want
                /\ Len(out.extra) = Len(out.user)
    /\ ~training => draws = 0 /\ pc \notin {"perm", "score", "error"}

C6_Witness ==
    /\ pc = "done"
    /\ training
    /\ draws = 2
    /\ \E a, b \in Range(user_tower) :
          /\ prediction_dict[sim_key(a)].extra_cols = 2
          /\ Len(prediction_dict[sim_key(a)].user) = 1
          /\ prediction_dict[sim_key(b)].extra_cols = 0
          /\ Len(prediction_dict[sim_key(b)].user) = 1

\* C7: the appended block is n x nflods and its entry [r, f] scores fold f of
\* original row r against the positive item of row r.
C7_AlignedNegatives ==
    ui_sim.extra_cols > 0 =>
        LET n == Len(tower_index)
            sel == towers[LastCall.attr].perm_feats_index
        IN /\ Len(ui_sim.extra) = n
           /\ \A r \in 1..n :
                 /\ Len(ui_sim.extra[r]) = ui_sim.extra_cols
                 /\ \A f \in 1..ui_sim.extra_cols :
                       /\ ui_sim.extra[r][f].item = pos_item_emb[r]
                       /\ \A k \in (1..NumFeats) \ sel :
                             ui_sim.extra[r][f].user.row[k] = tower_index[r]

\* C8: the permutation runs on the rows already restricted to the channel:
\* every feature block of an augmented row of tower i is read from a batch row
\* whose channel is i.
C8_PermAfterSelect ==
    pc = "score" =>
        \A j \in DOMAIN perm_user_emb, k \in 1..NumFeats :
           /\ perm_user_emb[j].row[k] \in DOMAIN channel
           /\ channel[perm_user_emb[j].row[k]] = i

C8_Witness ==
    /\ Permuted
    /\ Len(tower_index) = 1
    /\ Len(channel) = 2
    /\ \E r \in DOMAIN channel : channel[r] # i
    /\ Len(perm_user_emb) = 2

\* C9: the embedding the permute=True forward returns has nflods * n rows for
\* every permutation config, an empty list of permuted features included
\* (stated here for nflods >= 1 only, where the forward pass always returns).
C9_PermRows ==
    (pc = "score" /\ perm_feat_dict[user_tower[i + 1]].nflods >= 1) =>
        Len(perm_user_emb) = perm_feat_dict[user_tower[i + 1]].nflods * Len(tower_index)

\* C10: predict never raises and returns an entry for every user tower, for
\* any batch, also for a channel without rows (stated here for permutation
\* configs with nflods >= 1 only).
C10_PredictCompletes ==
    (\A k \in DOMAIN user_tower_perm_feat : user_tower_perm_feat[k].nflods >= 1) =>
        /\ pc # "error"
        /\ pc = "done" =>
              \A k \in DOMAIN user_tower :
                 sim_key(user_tower[k]) \in DOMAIN prediction_dict

====
